---------------------------- MODULE Spec2Model ----------------------------
(***************************************************************************)
(* Model of OrderedBitField::BitField (include/OrderedBitField/            *)
(* OrderedBitField.hpp): the layout tables FieldBegin and Mask, the        *)
(* default-initialised storage Data, and the FieldProxy accessor with its  *)
(* conversion, assignment and compound operators.                          *)
(*                                                                         *)
(* Values are C++ integers.  Every base type modelled here has a rank not  *)
(* above int, so each operand of a bitwise, shift or arithmetic operator   *)
(* is first promoted to the 32-bit int: an expression is evaluated on      *)
(* integers of the int range and static_cast brings the result back to     *)
(* the width of the field type.  Sequences are indexed from 1, the         *)
(* source's arrays from 0: descriptor I of the source is element I+1.      *)
(***************************************************************************)
EXTENDS Integers, Sequences, FiniteSets, TLC

VARIABLES
    BaseT,       \* the template argument BaseT, by name
    Fields,      \* the descriptor list FirstField, Fields...
    IsConst,     \* whether the BitField object is const-qualified
    DisallowOversized,  \* the macro ORDERED_BIT_FIELD_DISALLOW_OVERSIZED_FIELD
    FieldBegin,  \* static constexpr FieldBegin (NFields + 1 entries)
    Mask,        \* static constexpr Mask, as values of the int range
    MaskBits,    \* static constexpr Mask, as the sets of the bits that are set
    Data,        \* the member Data
    DataBits,    \* the member Data, each unit as the set of its bits that are set
    last         \* the last accessor operation: [I |-> the field it was on (0 for
                 \* none), rv |-> the FieldType values it returned]

vars ==
    <<BaseT, Fields, IsConst, DisallowOversized, FieldBegin, Mask, MaskBits,
      Data, DataBits, last>>

-----------------------------------------------------------------------------
(* The C++ integer model.                                                  *)

\* Width of int, the type every operand is promoted to.
IntBits == 32

RECURSIVE BitAnd(_, _)
\* a & b on two's-complement integers of any width.
BitAnd(a, b) ==
    IF a = 0 \/ b = 0 THEN 0
    ELSE IF a = -1 THEN b
    ELSE IF b = -1 THEN a
    ELSE (a % 2) * (b % 2) + 2 * BitAnd(a \div 2, b \div 2)

RECURSIVE BitOr(_, _)
\* a | b on two's-complement integers of any width.
BitOr(a, b) ==
    IF a = 0 THEN b
    ELSE IF b = 0 THEN a
    ELSE IF a = -1 \/ b = -1 THEN -1
    ELSE (IF a % 2 = 1 \/ b % 2 = 1 THEN 1 ELSE 0)
             + 2 * BitOr(a \div 2, b \div 2)

\* ~a.
BitNot(a) == (-1) - a

RECURSIVE BitXor(_, _)
\* a ^ b on two's-complement integers of any width.
BitXor(a, b) ==
    IF a = 0 THEN b
    ELSE IF b = 0 THEN a
    ELSE IF a = -1 THEN BitNot(b)
    ELSE IF b = -1 THEN BitNot(a)
    ELSE (IF a % 2 = b % 2 THEN 0 ELSE 1) + 2 * BitXor(a \div 2, b \div 2)

\* x << n in int, 0 <= n < IntBits: the product modulo 2^IntBits (C++20
\* [expr.shift]; every mainstream build gives the same before C++20).
ShlInt(x, n) ==
    IF n = 0 THEN x
    ELSE LET m   == 2 ^ (IntBits - 1 - n)
             low == x % m
             top == (x \div m) % 2
             mag == IF low = 0 THEN 0 ELSE low * (2 ^ n)
         IN  IF top = 1
             THEN (mag - 2 ^ (IntBits - 2)) - 2 ^ (IntBits - 2)
             ELSE mag

\* x >> n in int, 0 <= n < IntBits: the arithmetic shift.
ShrInt(x, n) ==
    IF n >= IntBits - 1 THEN (IF x < 0 THEN -1 ELSE 0) ELSE x \div (2 ^ n)

\* a / b in int: the quotient truncated towards zero.
DivInt(a, b) ==
    LET q == (IF a < 0 THEN -a ELSE a) \div (IF b < 0 THEN -b ELSE b)
    IN  IF (a < 0) = (b < 0) THEN q ELSE -q

\* a % b in int: the remainder, with the sign of the dividend.
ModInt(a, b) == a - b * DivInt(a, b)

\* Mask & M is nonzero, for UnderlyingType M = 1 << k with k below the width of
\* the type: bit k of Mask is set (the sign of Mask when k is the sign bit of
\* int; for a narrower type M is negative when k is its top bit, and Mask & M
\* is then nonzero exactly when Mask is negative, bit k of its promoted value).
TestBit(M, k) == IF k >= IntBits - 1 THEN M < 0 ELSE (M \div (2 ^ k)) % 2 = 1

-----------------------------------------------------------------------------
(* The base types.                                                         *)

\* The base types whose values are in the int range, on which the storage and
\* the accessor are modelled.
IntRangeTypes ==
    {"std::byte", "uint8_t", "int8_t", "uint16_t", "int16_t", "int32_t"}

\* The wider base types, for which only the layout tables are modelled, the
\* masks as sets of bits.
WideTypes == {"uint32_t", "uint64_t", "int64_t"}

BaseTypes == IntRangeTypes \cup WideTypes

\* sizeof(T) * std::numeric_limits<unsigned char>::digits
TypeBits(T) ==
    CASE T \in {"std::byte", "uint8_t", "int8_t"} -> 8
      [] T \in {"uint16_t", "int16_t"} -> 16
      [] T \in {"int32_t", "uint32_t"} -> 32
      [] T \in {"uint64_t", "int64_t"} -> 64

\* std::is_unsigned_v<Util::UnderlyingType<T>>
IsUnsignedT(T) ==
    T \in {"std::byte", "uint8_t", "uint16_t", "uint32_t", "uint64_t"}

\* std::is_enum_v<T>
IsEnumT(T) == T = "std::byte"

\* static_cast<T>(x) for x of the int range: x modulo 2^bits, in T's range.
StaticCast(T, x) ==
    IF TypeBits(T) = IntBits THEN x
    ELSE LET m == 2 ^ TypeBits(T)
             r == x % m
         IN  IF ~IsUnsignedT(T) /\ r >= m \div 2 THEN r - m ELSE r

FieldTypeBits == TypeBits(BaseT)
IsUnsigned    == IsUnsignedT(BaseT)
NFields       == Len(Fields)
Width         == [I \in 1..NFields |-> Fields[I].Width]
Tag           == [I \in 1..NFields |-> Fields[I].Tag]
FieldFixed    == [I \in 1..NFields |-> Fields[I].Fixed]
DefaultValue  == [I \in 1..NFields |-> StaticCast(BaseT, Fields[I].DefaultValue)]

-----------------------------------------------------------------------------
(* The descriptors.                                                        *)

\* RefByEnum::Field<T, W, D, F>
Field(T, W, D, F) == [Tag |-> T, Width |-> W, DefaultValue |-> D, Fixed |-> F]

\* RefByEnum::ConstField<Tag, W, D>
ConstField(T, W, D) == Field(T, W, D, TRUE)

\* The tag of every padding: the enumerator with the largest underlying value.
PaddingTag == "max"

\* RefByEnum::Padding<EnumT, W>
Padding(W) == Field(PaddingTag, W, 0, TRUE)

-----------------------------------------------------------------------------
(* The layout planner.                                                     *)

\* A variant of toSkipToNextUnit that tests the bit after the field's last.
toSkipToNextUnit_OffByOne(BeginBit, W, U) ==
    BeginBit \div U # (BeginBit + W) \div U

\* The lambda toSkipToNextUnit.  BeginBit + W - 1 is computed in size_t: with
\* BeginBit = 0 and W = 0 it wraps to SIZE_MAX, whose quotient by U is not 0.
toSkipToNextUnit(BeginBit, W, U) ==
    IF BeginBit + W - 1 < 0 THEN TRUE
    ELSE BeginBit \div U # (BeginBit + W - 1) \div U

\* BeginBit rounded up to a multiple of U.
NextUnit(BeginBit, U) == ((BeginBit + U - 1) \div U) * U

\* A variant of the loop body that never skips to the next unit.
FieldBeginStep_NoSkip(s, W, U) ==
    [B        |-> Append(s.B, s.BeginBit),
     BeginBit |-> IF W = 0 THEN NextUnit(s.BeginBit, U) ELSE s.BeginBit + W]

\* A variant of the loop body in which a zero width leaves the cursor alone.
FieldBeginStep_MarkerIgnored(s, W, U) ==
    LET b == IF toSkipToNextUnit(s.BeginBit, W, U)
             THEN NextUnit(s.BeginBit, U) ELSE s.BeginBit
    IN  [B |-> Append(s.B, b), BeginBit |-> b + W]

\* A variant of the loop body in which a field does not move the cursor.
FieldBeginStep_NoAdvance(s, W, U) ==
    LET b == IF toSkipToNextUnit(s.BeginBit, W, U)
             THEN NextUnit(s.BeginBit, U) ELSE s.BeginBit
    IN  [B        |-> Append(s.B, b),
         BeginBit |-> IF W = 0 THEN NextUnit(b, U) ELSE b]

\* A variant of the loop body that tests straddling on units twice as wide.
FieldBeginStep_WideUnit(s, W, U) ==
    LET b == IF toSkipToNextUnit(s.BeginBit, W, 2 * U)
             THEN NextUnit(s.BeginBit, 2 * U) ELSE s.BeginBit
    IN  [B        |-> Append(s.B, b),
         BeginBit |-> IF W = 0 THEN NextUnit(b, U) ELSE b + W]

\* One iteration of the loop of the FieldBegin lambda, on [B, BeginBit].
FieldBeginStep(s, W, U) ==
    LET b == IF toSkipToNextUnit(s.BeginBit, W, U)
             THEN NextUnit(s.BeginBit, U) ELSE s.BeginBit
    IN  [B        |-> Append(s.B, b),
         BeginBit |-> IF W = 0 THEN NextUnit(b, U) ELSE b + W]

RECURSIVE FieldBeginLoop(_, _, _)
\* The loop of the FieldBegin lambda after its first n iterations.
FieldBeginLoop(Ws, U, n) ==
    IF n = 0 THEN [B |-> <<>>, BeginBit |-> 0]
    ELSE FieldBeginStep(FieldBeginLoop(Ws, U, n - 1), Ws[n], U)

\* The FieldBegin lambda: B[0..NFields-1], then B[NFields] = BeginBit.
ComputeFieldBegin(Ws, U) ==
    LET s == FieldBeginLoop(Ws, U, Len(Ws)) IN Append(s.B, s.BeginBit)

Min(a, b) == IF a < b THEN a ELSE b

RECURSIVE MaskLoop(_, _, _, _)
\* The inner loop of the Mask lambda: J iterations left, M so far, bit S next.
MaskLoop(T, M, S, J) ==
    IF J = 0 THEN M
    ELSE MaskLoop(T, StaticCast(T, BitOr(M, StaticCast(T, ShlInt(1, S)))),
                  S + 1, J - 1)

\* The Mask lambda.
ComputeMask(T, Ws, FB) ==
    [I \in 1..Len(Ws) |->
        StaticCast(T, MaskLoop(T, 0, FB[I] % TypeBits(T),
                               Min(Ws[I], TypeBits(T))))]

\* static_cast<UnderlyingType>(x) for an int x, as the set of the bits set
\* in the result: x is truncated to a narrower type and sign-extended to a
\* wider one.
CastBits(T, x) == {k \in 0..(TypeBits(T) - 1) : TestBit(x, k)}

RECURSIVE MaskBitsLoop(_, _, _, _)
\* The inner loop of the Mask lambda on sets of bits: J iterations left.
MaskBitsLoop(T, M, S, J) ==
    IF J = 0 THEN M
    ELSE MaskBitsLoop(T, M \cup CastBits(T, ShlInt(1, S)), S + 1, J - 1)

\* The Mask lambda on sets of bits.
ComputeMaskBits(T, Ws, FB) ==
    [I \in 1..Len(Ws) |->
        MaskBitsLoop(T, {}, FB[I] % TypeBits(T), Min(Ws[I], TypeBits(T)))]

\* Every 1 << S of the Mask lambda has S below the width of int.  Another
\* count is undefined, and the lambda is evaluated as a constant expression:
\* the instantiation does not compile.
MaskShiftsDefined(T, Ws, FB) ==
    \A I \in 1..Len(Ws) :
        Ws[I] > 0 =>
            (FB[I] % TypeBits(T)) + Min(Ws[I], TypeBits(T)) - 1 < IntBits

\* dataSize(), from the table FB of a unit of U bits.
DataSizeOf(FB, U) == (FB[Len(FB)] + U - 1) \div U

\* dataSize()
dataSize == DataSizeOf(FieldBegin, FieldTypeBits)

-----------------------------------------------------------------------------
(* The storage.                                                            *)

RECURSIVE DataLoop(_, _, _, _, _, _)
\* The loop of the Data initializer after its first n iterations.  An index
\* past the end of F is undefined: where the lambda is consteval the
\* instantiation does not compile, elsewhere the object past the array is
\* read and written back unchanged (the index leaves the array only for
\* Width[I] = 0, where Mask[I] = 0), and F keeps its units.  The states of
\* the builds that compile are the ones kept.
DataLoop(T, FB, Msk, Dflt, size, n) ==
    IF n = 0 THEN [k \in 1..size |-> 0]
    ELSE LET F == DataLoop(T, FB, Msk, Dflt, size, n - 1)
             k == FB[n] \div TypeBits(T) + 1
         IN  IF k \notin 1..size THEN F
             ELSE [F EXCEPT ![k] =
                     StaticCast(T,
                        BitOr(BitAnd(F[k], BitNot(Msk[n])),
                              BitAnd(ShlInt(Dflt[n], FB[n] % TypeBits(T)),
                                     Msk[n])))]

\* The Data initializer.
ComputeData(T, FB, Msk, Dflt, size) ==
    DataLoop(T, FB, Msk, Dflt, size, Len(Msk))

\* B << n in the type T, on sets of bits: the bits shifted out are lost.
ShlBits(T, B, n) == {k + n : k \in B} \cap (0..(TypeBits(T) - 1))

\* (F & ~M) | ((v << Shift) & M) in the type T, on sets of bits: the
\* expression of the Data initializer and of operator=.
StoreBits(T, F, Shift, M, v) == (F \ M) \cup (ShlBits(T, v, Shift) \cap M)

\* The DefaultValue table, each entry as the set of its bits that are set.
DefaultValueBits ==
    [I \in 1..NFields |-> CastBits(BaseT, Fields[I].DefaultValue)]

RECURSIVE DataBitsLoop(_, _, _, _, _, _)
\* The loop of the Data initializer on sets of bits, as DataLoop; Dflt are
\* the sets of the bits of the DefaultValue table.
DataBitsLoop(T, FB, Msk, Dflt, size, n) ==
    IF n = 0 THEN [k \in 1..size |-> {}]
    ELSE LET F == DataBitsLoop(T, FB, Msk, Dflt, size, n - 1)
             k == FB[n] \div TypeBits(T) + 1
         IN  IF k \notin 1..size THEN F
             ELSE [F EXCEPT ![k] =
                     StoreBits(T, F[k], FB[n] % TypeBits(T), Msk[n],
                               Dflt[n])]

\* The Data initializer on sets of bits.
ComputeDataBits(T, FB, Msk, Dflt, size) ==
    DataBitsLoop(T, FB, Msk, Dflt, size, Len(Msk))

-----------------------------------------------------------------------------
(* The accessor: FieldProxy<FieldT, Shift, Mask> bound to one unit.        *)

\* index<Query>(): the first descriptor with the tag, NFields if there is none
\* (0-based; here the 1-based index, NFields + 1 if there is none).
index(Query) ==
    IF \E I \in 1..NFields : Tag[I] = Query
    THEN CHOOSE I \in 1..NFields :
            /\ Tag[I] = Query
            /\ \A J \in 1..(I - 1) : Tag[J] # Query
    ELSE NFields + 1

\* The unit get<I>() binds the proxy to: Data[FieldBegin[I] / FieldTypeBits].
UnitOf(I) == FieldBegin[I] \div FieldTypeBits + 1

\* The template argument Shift of the proxy get<I>() returns.
ShiftOf(I) == FieldBegin[I] % FieldTypeBits

\* A variant of the proxy's constness that looks at the storage only.
IsReadOnly_StorageOnly(I) == IsConst

\* get<I>() returns a FieldProxy<const FieldType, ...> for a fixed field and
\* for a const BitField.
IsReadOnly(I) == FieldFixed[I] \/ IsConst

\* A variant of the proxy without its static_assert.
ProxyValid_Always(I) == TRUE

\* static_assert(static_cast<UnderlyingType>(Mask) > 0, "cannot access member
\* of size zero")
ProxyValid(I) == Mask[I] > 0

\* The same static_assert on the set M of the bits of Mask: the value is
\* positive when a bit is set and, for a signed type, the sign bit is not.
ProxyValidBits(T, M) ==
    /\ M # {}
    /\ IsUnsignedT(T) \/ (TypeBits(T) - 1) \notin M

\* get<Query>() compiles: the tag is found and the proxy type is valid.
CanGet(Query) == index(Query) <= NFields /\ ProxyValid(index(Query))

RECURSIVE MaskMsbOffsetLoop(_, _, _)
\* The loop of the lambda MaskMsbOffset from Offset on; 0 when it runs out.
MaskMsbOffsetLoop(T, M, Offset) ==
    IF Offset >= TypeBits(T) THEN 0
    ELSE IF TestBit(M, TypeBits(T) - Offset - 1)
         THEN Offset
         ELSE MaskMsbOffsetLoop(T, M, Offset + 1)

\* The lambda MaskMsbOffset of the signed branch of operator FieldType.
MaskMsbOffset(T, M) == MaskMsbOffsetLoop(T, M, 0)

\* A variant of operator FieldType() that leaves the field where it sits.
Read_Unshifted(T, F, Shift, M) == StaticCast(T, BitAnd(F, M))

\* operator FieldType() of a proxy with unit value F.
Read(T, F, Shift, M) ==
    IF IsUnsignedT(T)
    THEN StaticCast(T, ShrInt(BitAnd(F, M), Shift))
    ELSE LET Off == MaskMsbOffset(T, M)
         IN  StaticCast(T, ShrInt(ShlInt(BitAnd(F, M), Off), Shift + Off))

\* The value read from field I of a storage D.
ReadField(D, I) == Read(BaseT, D[UnitOf(I)], ShiftOf(I), Mask[I])

\* The unit value the arithmetic compound operators store, given the value v
\* of (static_cast<FieldType>(*this) op Rhs).
StoreValue(T, F, Shift, M, v) ==
    StaticCast(T, BitOr(BitAnd(F, BitNot(M)), BitAnd(ShlInt(v, Shift), M)))

\* A variant of operator= that does not mask the shifted operand.
AssignUnit_Unmasked(T, F, Shift, M, Rhs) ==
    StaticCast(T, BitOr(BitAnd(F, BitNot(M)), ShlInt(StaticCast(T, Rhs), Shift)))

\* operator=
AssignUnit(T, F, Shift, M, Rhs) ==
    StaticCast(T, BitOr(BitAnd(F, BitNot(M)),
                        BitAnd(ShlInt(StaticCast(T, Rhs), Shift), M)))

\* operator&=
AndUnit(T, F, Shift, M, Rhs) ==
    StaticCast(T, BitAnd(F, BitOr(ShlInt(StaticCast(T, Rhs), Shift), BitNot(M))))

\* operator|=
OrUnit(T, F, Shift, M, Rhs) ==
    StaticCast(T, BitOr(F, BitAnd(ShlInt(StaticCast(T, Rhs), Shift), M)))

\* operator^=
XorUnit(T, F, Shift, M, Rhs) ==
    StaticCast(T, BitOr(BitAnd(F, BitNot(M)),
                        BitAnd(BitXor(F, ShlInt(StaticCast(T, Rhs), Shift)), M)))

\* The outcomes of x << n or x >> n in int for a count n outside
\* 0..IntBits-1, which is undefined: the count taken modulo IntBits, as the
\* shift instructions do, or a folded 0 or -1.
UndefinedShift(x, n) ==
    {0, -1, ShlInt(x, n % IntBits), ShrInt(x, n % IntBits)}

\* The outcomes of x << n in int.
ShlOutcomes(x, n) ==
    IF n \in 0..(IntBits - 1) THEN {ShlInt(x, n)} ELSE UndefinedShift(x, n)

\* The outcomes of x >> n in int.
ShrOutcomes(x, n) ==
    IF n \in 0..(IntBits - 1) THEN {ShrInt(x, n)} ELSE UndefinedShift(x, n)

\* operator<<= and operator>>=, given the value sh of the shift expression.
ShiftUnit(T, F, Shift, M, sh) ==
    StaticCast(T, BitOr(BitAnd(F, BitNot(M)), BitAnd(sh, M)))

\* The operand of the right shift in operator>>=: the masked unit for an
\* unsigned type, the field's value shifted back to its place otherwise.
ShrOperand(T, F, Shift, M) ==
    IF IsUnsignedT(T) THEN BitAnd(F, M) ELSE ShlInt(Read(T, F, Shift, M), Shift)

\* The outcomes of a / b in int; b = 0 is undefined: a build that does not
\* trap leaves 0, -1 or the dividend.
DivOutcomes(a, b) == IF b # 0 THEN {DivInt(a, b)} ELSE {0, -1, a}

\* The outcomes of a % b in int.
ModOutcomes(a, b) == IF b # 0 THEN {ModInt(a, b)} ELSE {0, -1, a}

-----------------------------------------------------------------------------
(* Construction.                                                           *)

\* last.rv is the sequence of the FieldType values the operation returned:
\* none after construction and for an operator that returns *this, the proxy.
NoValue == <<>>

\* A variant of the static_asserts in which the macro has no effect.
Accepted_AnyWidth(T, Fs, d) == T \in BaseTypes

\* The static_asserts of the class template: the base type is integral or an
\* enum, the tags have one non-integral type (here they are enumerators),
\* and, when the macro is set, no width is above FieldTypeBits.
Accepted(T, Fs, d) ==
    /\ T \in BaseTypes
    /\ d => \A I \in 1..Len(Fs) : Fs[I].Width <= TypeBits(T)

\* The state of a BitField<T, Fs...> object after its construction; c tells
\* whether the object is const.
Construct(T, Fs, c) ==
    LET Ws   == [I \in 1..Len(Fs) |-> Fs[I].Width]
        FB   == ComputeFieldBegin(Ws, TypeBits(T))
        Msk  == ComputeMask(T, Ws, FB)
        Dflt == [I \in 1..Len(Fs) |-> StaticCast(T, Fs[I].DefaultValue)]
    IN  /\ BaseT = T
        /\ Fields = Fs
        /\ IsConst = c
        /\ FieldBegin = FB
        /\ Mask = Msk
        /\ MaskBits = ComputeMaskBits(T, Ws, FB)
        /\ Data = ComputeData(T, FB, Msk, Dflt, DataSizeOf(FB, TypeBits(T)))
        /\ DataBits = ComputeDataBits(T, FB, ComputeMaskBits(T, Ws, FB),
                        [I \in 1..Len(Fs) |-> CastBits(T, Fs[I].DefaultValue)],
                        DataSizeOf(FB, TypeBits(T)))
        /\ last = [I |-> 0, rv |-> NoValue]

-----------------------------------------------------------------------------
(* The accessor operations.  Each is get<Query>(BF) followed by one        *)
(* operator of the proxy, with right-hand side Rhs of type int (of type    *)
(* std::byte where the base type is std::byte and the operator takes one). *)

\* The mutating operators compile: get<Query>() compiles and the proxy's
\* FieldT is not const (static_assert(!std::is_const_v<FieldT>, ...)).
CanWrite(Query) == CanGet(Query) /\ ~IsReadOnly(index(Query))

\* The type of Rhs lets the operator's trailing return type be formed:
\* std::byte combines only with std::byte.
RhsFits(Rhs) == IsEnumT(BaseT) => Rhs \in 0..(2 ^ FieldTypeBits - 1)

\* The arithmetic operators and ++, -- exist for the field type.
IsArithmetic == ~IsEnumT(BaseT)

\* The unit the proxy of field I refers to.
FieldOf(I) == Data[UnitOf(I)]

\* static_cast<FieldType>(*this) for the proxy of field I.
Value(I) == ReadField(Data, I)

\* The store Field = unit through the proxy of index(Query) by an operator
\* that returns rv, recorded in last.
UpdateReturning(Query, unit, rv) ==
    /\ Data' = [Data EXCEPT ![UnitOf(index(Query))] = unit]
    /\ DataBits' = [DataBits EXCEPT
                        ![UnitOf(index(Query))] = CastBits(BaseT, unit)]
    /\ last' = [I |-> index(Query), rv |-> rv]
    /\ UNCHANGED <<BaseT, Fields, IsConst, DisallowOversized, FieldBegin, Mask,
                   MaskBits>>

\* The store Field = unit by an operator that ends with return *this.
Update(Query, unit) == UpdateReturning(Query, unit, NoValue)

\* The store of the arithmetic compound operators, v being the value of
\* static_cast<FieldType>(*this) op Rhs.
Arith(Query, v) ==
    LET I == index(Query)
    IN  Update(Query, StoreValue(BaseT, FieldOf(I), ShiftOf(I), Mask[I], v))

Assign(Query, Rhs) ==
    LET I == index(Query)
    IN  /\ CanWrite(Query) /\ RhsFits(Rhs)
        /\ Update(Query,
                  AssignUnit(BaseT, FieldOf(I), ShiftOf(I), Mask[I], Rhs))

AddAssign(Query, Rhs) ==
    /\ CanWrite(Query) /\ IsArithmetic
    /\ Arith(Query, Value(index(Query)) + Rhs)

SubAssign(Query, Rhs) ==
    /\ CanWrite(Query) /\ IsArithmetic
    /\ Arith(Query, Value(index(Query)) - Rhs)

MulAssign(Query, Rhs) ==
    /\ CanWrite(Query) /\ IsArithmetic
    /\ Arith(Query, Value(index(Query)) * Rhs)

DivAssign(Query, Rhs) ==
    /\ CanWrite(Query) /\ IsArithmetic
    /\ \E q \in DivOutcomes(Value(index(Query)), Rhs) :
            Arith(Query, q)

ModAssign(Query, Rhs) ==
    /\ CanWrite(Query) /\ IsArithmetic
    /\ \E r \in ModOutcomes(Value(index(Query)), Rhs) :
            Arith(Query, r)

AndAssign(Query, Rhs) ==
    LET I == index(Query)
    IN  /\ CanWrite(Query) /\ RhsFits(Rhs)
        /\ Update(Query,
                  AndUnit(BaseT, FieldOf(I), ShiftOf(I), Mask[I], Rhs))

OrAssign(Query, Rhs) ==
    LET I == index(Query)
    IN  /\ CanWrite(Query) /\ RhsFits(Rhs)
        /\ Update(Query,
                  OrUnit(BaseT, FieldOf(I), ShiftOf(I), Mask[I], Rhs))

XorAssign(Query, Rhs) ==
    LET I == index(Query)
    IN  /\ CanWrite(Query) /\ RhsFits(Rhs)
        /\ Update(Query,
                  XorUnit(BaseT, FieldOf(I), ShiftOf(I), Mask[I], Rhs))

ShlAssign(Query, Rhs) ==
    LET I == index(Query)
    IN  /\ CanWrite(Query)
        /\ \E sh \in ShlOutcomes(BitAnd(FieldOf(I), Mask[I]), Rhs) :
                Update(Query,
                  ShiftUnit(BaseT, FieldOf(I), ShiftOf(I), Mask[I], sh))

ShrAssign(Query, Rhs) ==
    LET I == index(Query)
    IN  /\ CanWrite(Query)
        /\ \E sh \in ShrOutcomes(
                        ShrOperand(BaseT, FieldOf(I), ShiftOf(I), Mask[I]), Rhs) :
                Update(Query,
                  ShiftUnit(BaseT, FieldOf(I), ShiftOf(I), Mask[I], sh))

\* operator++(): return *this += 1
PreInc(Query) ==
    /\ CanWrite(Query) /\ IsArithmetic
    /\ Arith(Query, Value(index(Query)) + 1)

\* operator--(): return *this -= 1
PreDec(Query) ==
    /\ CanWrite(Query) /\ IsArithmetic
    /\ Arith(Query, Value(index(Query)) - 1)

\* operator++(int): rv = *this; this->operator++(); return rv
PostInc(Query) ==
    LET I == index(Query)
    IN  /\ CanWrite(Query) /\ IsArithmetic
        /\ UpdateReturning(Query,
              StoreValue(BaseT, FieldOf(I), ShiftOf(I), Mask[I], Value(I) + 1),
              <<Value(I)>>)

\* operator--(int): rv = *this; this->operator--(); return rv
PostDec(Query) ==
    LET I == index(Query)
    IN  /\ CanWrite(Query) /\ IsArithmetic
        /\ UpdateReturning(Query,
              StoreValue(BaseT, FieldOf(I), ShiftOf(I), Mask[I], Value(I) - 1),
              <<Value(I)>>)

-----------------------------------------------------------------------------
(* The programs: the instantiations and the operands they are run on.      *)

\* The enumerators used as tags, besides the one Padding takes.
Tags == {"A", "B", "C", "D"}

\* The largest magnitude of a right-hand side.
MaxRhs == 6

RhsValues == (-MaxRhs)..MaxRhs

\* The instantiations the accessor operations run on.
Layouts ==
    { \* the example of the class documentation
      [T |-> "uint8_t",
       Fs |-> <<Field("A", 3, 0, FALSE), ConstField("B", 2, 3), Padding(2),
                Field("C", 1, 1, FALSE)>>],
      \* test/Alignment.cpp, "sum of field width <= 1 byte"
      [T |-> "std::byte",
       Fs |-> <<Field("A", 3, 0, FALSE), Field("B", 1, 0, FALSE),
                Field("C", 1, 0, FALSE)>>],
      \* test/Alignment.cpp, "zero size field breaks up padding"
      [T |-> "std::byte",
       Fs |-> <<Field("A", 3, 0, FALSE), Field("B", 1, 0, FALSE), Padding(0),
                Field("C", 1, 0, FALSE)>>],
      \* test/Alignment.cpp, "with non-zero size padding"
      [T |-> "uint8_t",
       Fs |-> <<Field("A", 3, 0, FALSE), Field("B", 1, 0, FALSE), Padding(2),
                Field("C", 1, 0, FALSE)>>],
      \* two units, a default wider than its field, a fixed field
      [T |-> "uint16_t",
       Fs |-> <<Padding(7), Field("A", 3, 0, FALSE), Padding(0),
                Field("B", 2, 5, FALSE), ConstField("C", 2, 2)>>],
      \* signed base types, fields at several shifts, negative defaults
      [T |-> "int8_t",
       Fs |-> <<Field("A", 3, -3, FALSE), Field("B", 2, 0, FALSE),
                ConstField("C", 3, -1)>>],
      [T |-> "int16_t",
       Fs |-> <<Padding(9), Field("A", 3, -3, FALSE), Field("B", 2, 1, FALSE)>>],
      [T |-> "int32_t",
       Fs |-> <<Field("A", 3, -3, FALSE), Field("B", 2, 0, FALSE)>>],
      [T |-> "int32_t",
       Fs |-> <<Padding(26), Field("A", 3, 0, FALSE), Field("B", 2, -1, FALSE),
                ConstField("C", 1, 1)>>],
      \* one tag on two descriptors
      [T |-> "uint8_t",
       Fs |-> <<Field("A", 1, 0, FALSE), Field("A", 2, 2, FALSE)>>] }

\* The instantiations are built with the macro unset, its default.
Init ==
    \E L \in Layouts, c \in BOOLEAN :
        /\ DisallowOversized = FALSE
        /\ Accepted(L.T, L.Fs, FALSE)
        /\ Construct(L.T, L.Fs, c)

Next ==
    \E Query \in Tags \cup {PaddingTag} :
        \/ \E Rhs \in RhsValues :
              \/ Assign(Query, Rhs)
              \/ AddAssign(Query, Rhs)
              \/ SubAssign(Query, Rhs)
              \/ MulAssign(Query, Rhs)
              \/ DivAssign(Query, Rhs)
              \/ ModAssign(Query, Rhs)
              \/ AndAssign(Query, Rhs)
              \/ OrAssign(Query, Rhs)
              \/ XorAssign(Query, Rhs)
              \/ ShlAssign(Query, Rhs)
              \/ ShrAssign(Query, Rhs)
        \/ PreInc(Query)
        \/ PreDec(Query)
        \/ PostInc(Query)
        \/ PostDec(Query)

Spec == Init /\ [][Next]_vars

-----------------------------------------------------------------------------
(* The planner on every list of widths: the instantiations                 *)
(* BitField<T, Field<Tag, W>...>, a width of 0 being a Padding<Tag, 0>,    *)
(* written to as the tests of test/Alignment.cpp do.                       *)

\* The largest number of descriptors.
MaxFields == 4

PlanTypes == {"uint8_t", "uint16_t"}

\* 0, widths that fit, the width of the unit and one more than it.
PlanWidths(T) == {0, 1, 3, 5, TypeBits(T), TypeBits(T) + 1}

\* The value the tests assign to a field of width W: 2 to the 3-bit field, 1 to
\* a 1-bit field, 10 to the 5-bit field; here 2^W - 3 to a wider one.
PlanValue(W) == CASE W = 1 -> 1 [] W = 3 -> 2 [] W = 5 -> 10 [] OTHER -> 2 ^ W - 3

PlanTag == <<"A", "B", "C", "D", "E", "F">>

PlanFields(Ws) ==
    [I \in 1..Len(Ws) |->
        IF Ws[I] = 0 THEN Padding(0) ELSE Field(PlanTag[I], Ws[I], 0, FALSE)]

PlanInit ==
    \E T \in PlanTypes, n \in 1..MaxFields, d \in BOOLEAN :
        \E Ws \in [1..n -> PlanWidths(T)] :
            /\ DisallowOversized = d
            /\ Accepted(T, PlanFields(Ws), d)
            /\ Construct(T, PlanFields(Ws), FALSE)

\* The tests assign to the fields in the order of the descriptors.
PlanNext ==
    \E I \in 1..MaxFields :
        /\ I <= NFields
        /\ last.I < I
        /\ Assign(PlanTag[I], PlanValue(Width[I]))

PlanSpec == PlanInit /\ [][PlanNext]_vars

-----------------------------------------------------------------------------
(* The Mask table on every list of widths, the wide base types included:   *)
(* the class template is instantiated, which evaluates FieldBegin and then *)
(* Mask; an object is then constructed and its fields are assigned to.     *)
(* Mask and Data are kept as sets of bits only.                            *)

\* The largest number of descriptors.
MaxMaskFields == 3

MaskTypes == {"uint8_t", "uint16_t", "int32_t"} \cup WideTypes

\* Widths that put a field below, at and above bit 31 of its unit.
MaskWidths == {0, 1, 3, 15, 31}

\* FieldBegin has been evaluated, Mask has not.
MaskInit ==
    \E T \in MaskTypes, n \in 1..MaxMaskFields :
        \E Ws \in [1..n -> MaskWidths] :
            /\ Accepted(T, PlanFields(Ws), FALSE)
            /\ BaseT = T
            /\ Fields = PlanFields(Ws)
            /\ IsConst = FALSE
            /\ DisallowOversized = FALSE
            /\ FieldBegin = ComputeFieldBegin(Ws, TypeBits(T))
            /\ Mask = <<>>
            /\ MaskBits = <<>>
            /\ Data = <<>>
            /\ DataBits = <<>>
            /\ last = [I |-> 0, rv |-> NoValue]

\* The evaluation of the Mask lambda.
EvaluateMask ==
    /\ MaskBits = <<>>
    /\ MaskShiftsDefined(BaseT, Width, FieldBegin)
    /\ MaskBits' = ComputeMaskBits(BaseT, Width, FieldBegin)
    /\ UNCHANGED <<BaseT, Fields, IsConst, DisallowOversized, FieldBegin, Mask,
                   Data, DataBits, last>>

\* The right-hand sides assigned: values of one and of two bits.
MaskRhs == {0, 1, 3}

\* The construction of the object: the Data initializer.
ConstructBits ==
    /\ MaskBits # <<>>
    /\ DataBits = <<>>
    /\ DataBits' = ComputeDataBits(BaseT, FieldBegin, MaskBits,
                                   DefaultValueBits, dataSize)
    /\ UNCHANGED <<BaseT, Fields, IsConst, DisallowOversized, FieldBegin, Mask,
                   MaskBits, Data, last>>

\* get<Query>(BF) = Rhs on the constructed object.
AssignBits(Query, Rhs) ==
    LET I == index(Query)
    IN  /\ MaskBits # <<>>
        /\ I <= NFields
        /\ UnitOf(I) \in DOMAIN DataBits
        /\ ProxyValidBits(BaseT, MaskBits[I])
        /\ ~IsReadOnly(I)
        /\ DataBits' = [DataBits EXCEPT ![UnitOf(I)] =
                            StoreBits(BaseT, DataBits[UnitOf(I)], ShiftOf(I),
                                      MaskBits[I], CastBits(BaseT, Rhs))]
        /\ last' = [I |-> I, rv |-> NoValue]
        /\ UNCHANGED <<BaseT, Fields, IsConst, DisallowOversized, FieldBegin,
                       Mask, MaskBits, Data>>

MaskNext ==
    \/ EvaluateMask
    \/ ConstructBits
    \/ \E Query \in Tags, Rhs \in MaskRhs : AssignBits(Query, Rhs)

MaskSpec == MaskInit /\ [][MaskNext]_vars

-----------------------------------------------------------------------------
(* What the claims are stated with.                                        *)

\* The descriptor list of the example of the class documentation, the tags
\* "a", "b", "c" being A, B, C.
DocFields ==
    <<Field("A", 3, 0, FALSE), ConstField("B", 2, 3), Padding(2),
      Field("C", 1, 1, FALSE)>>

\* The storage as constructed, for the tables of the current state.
ConstructedData ==
    ComputeData(BaseT, FieldBegin, Mask, DefaultValue, dataSize)

\* The planner's cursor (the lambda's BeginBit) after its first n descriptors.
CursorAfter(n) == FieldBeginLoop(Width, FieldTypeBits, n).BeginBit

\* The least multiple of U that is not below c.
CeilMul(c, U) == CHOOSE m \in c..(c + U - 1) : m % U = 0

RECURSIVE SumWidths(_)
\* The sum of the widths of the first n descriptors.
SumWidths(n) == IF n = 0 THEN 0 ELSE SumWidths(n - 1) + Width[n]

\* The values read from all the fields, 0 standing for a zero-width marker.
Values == [I \in 1..NFields |-> IF Width[I] = 0 THEN 0 ELSE ReadField(Data, I)]

\* The bits of field I in storage D, as a number below 2^Width[I].
FieldBits(D, I) ==
    BitAnd(ShrInt(D[UnitOf(I)], ShiftOf(I)),
           2 ^ Min(Width[I], FieldTypeBits) - 1)

\* The W-bit pattern p read as a two's-complement number.
TwosComplement(p, W) == IF p >= 2 ^ (W - 1) THEN p - 2 ^ W ELSE p

\* The largest and the smallest value of field I in its logical type.
MaxValue(I) ==
    IF IsUnsigned THEN 2 ^ Width[I] - 1 ELSE 2 ^ (Width[I] - 1) - 1

MinValue(I) == IF IsUnsigned THEN 0 ELSE -(2 ^ (Width[I] - 1))

\* The integer v reduced to the W bits of field I and read back in the
\* logical type: modulo 2^W, sign-extended from bit W-1 for a signed type.
Reduced(v, I) ==
    LET W == Min(Width[I], FieldTypeBits)
    IN  IF IsUnsigned THEN v % (2 ^ W) ELSE TwosComplement(v % (2 ^ W), W)

-----------------------------------------------------------------------------
(* C1.  Order-guaranteed packing: when all the widths are positive and sum *)
(* to at most the unit width, each field begins at the sum of the widths   *)
(* before it, least-significant bit first, and the storage is one unit;    *)
(* widths 3,1,1 over 8 bits with values 2,0,1 give 0b00010010 and widths   *)
(* 3,1,5 over 16 bits with values 2,0,10 give 0b0000000010100010.          *)
C1_OrderGuaranteedPacking ==
    /\ ((\A I \in 1..NFields : Width[I] > 0) /\ SumWidths(NFields) <= FieldTypeBits)
          => /\ \A I \in 1..NFields :
                   /\ FieldBegin[I] = SumWidths(I - 1)
                   /\ Mask[I] = (2 ^ Width[I] - 1) * (2 ^ SumWidths(I - 1))
             /\ dataSize = 1
             /\ Len(Data) = 1
    /\ (BaseT = "uint8_t" /\ Width = <<3, 1, 1>> /\ Values = <<2, 0, 1>>)
          => Data = <<18>>
    /\ (BaseT = "uint16_t" /\ Width = <<3, 1, 5>> /\ Values = <<2, 0, 10>>)
          => Data = <<162>>

\* Both examples of C1 have been written.
C1_Witness ==
    \/ BaseT = "uint8_t" /\ Width = <<3, 1, 1>> /\ Values = <<2, 0, 1>>
          /\ last.I = 3
    \/ BaseT = "uint16_t" /\ Width = <<3, 1, 5>> /\ Values = <<2, 0, 10>>
          /\ last.I = 3

(* C2.  Alignment: a field of width W > 0 that would straddle a unit       *)
(* boundary at the cursor c begins at the next multiple of the unit width, *)
(* otherwise at c; the cursor is then begin + W; the storage has           *)
(* ceil(final cursor / U) units; widths 3,1,5 over 8 bits take 2 units and *)
(* values 2,0,10 give [0b00000010, 0b00001010].                            *)
C2_Alignment ==
    LET U == FieldTypeBits
    IN  /\ \A I \in 1..NFields :
              Width[I] > 0 =>
                LET c == CursorAfter(I - 1)
                IN  /\ FieldBegin[I] =
                          IF c \div U # (c + Width[I] - 1) \div U
                          THEN CeilMul(c, U) ELSE c
                    /\ CursorAfter(I) = FieldBegin[I] + Width[I]
        /\ FieldBegin[NFields + 1] = CursorAfter(NFields)
        /\ dataSize * U >= CursorAfter(NFields)
        /\ dataSize * U < CursorAfter(NFields) + U
        /\ Len(Data) = dataSize
        /\ (BaseT = "uint8_t" /\ Width = <<3, 1, 5>>)
              => /\ dataSize = 2
                 /\ Values = <<2, 0, 10>> => Data = <<2, 10>>

\* The 5-bit field was moved to the second unit and written.
C2_Witness ==
    /\ BaseT = "uint8_t" /\ Width = <<3, 1, 5>> /\ Values = <<2, 0, 10>>
    /\ FieldBegin[3] = 8 /\ last.I = 3

(* C3.  A zero-width descriptor moves the cursor to the next multiple of   *)
(* the unit width (nowhere if it is one already, so two in a row act as    *)
(* one), takes no bits, and the descriptor after it begins unit-aligned;   *)
(* widths 3,1,0,1 over 8 bits take 2 units and values 2,0,1 give           *)
(* [0b00000010, 0b00000001].                                               *)
C3_ZeroWidthMarker ==
    LET U == FieldTypeBits
    IN  /\ \A I \in 1..NFields :
              Width[I] = 0 =>
                /\ CursorAfter(I) = CeilMul(CursorAfter(I - 1), U)
                /\ Mask[I] = 0
                /\ I < NFields => FieldBegin[I + 1] = CursorAfter(I)
                /\ I < NFields => FieldBegin[I + 1] % U = 0
                /\ (I < NFields /\ Width[I + 1] = 0)
                      => CursorAfter(I + 1) = CursorAfter(I)
        /\ (BaseT = "uint8_t" /\ Width = <<3, 1, 0, 1>>)
              => /\ dataSize = 2
                 /\ Values = <<2, 0, 0, 1>> => Data = <<2, 1>>

\* A marker moved a 1-bit field that would have fitted; the field was written.
C3_Witness ==
    /\ BaseT = "uint8_t" /\ Width = <<3, 1, 0, 1>> /\ Values = <<2, 0, 0, 1>>
    /\ FieldBegin[4] = 8 /\ last.I = 4

(* C4.  Round trip: after F = V on a non-fixed field of width W > 0 a read *)
(* of F returns V when V is representable in W bits (0..2^W-1 unsigned or  *)
(* enum-backed, -2^(W-1)..2^(W-1)-1 signed), and V reduced modulo 2^W,     *)
(* sign-extended from bit W-1 for a signed type, otherwise.                *)
C4_RoundTrip ==
    [][\A Query \in Tags, Rhs \in RhsValues :
          Assign(Query, Rhs)
            => ReadField(Data', index(Query)) = Reduced(Rhs, index(Query))]_vars

(* C5.  Write isolation: a mutating operation on a non-fixed field F, with *)
(* any operand, leaves every storage bit outside F's mask as it was, so    *)
(* every other field, in F's unit or in another, reads as before.          *)
C5_WriteIsolation ==
    [][LET I == last'.I
       IN  /\ I \in 1..NFields
           /\ ~FieldFixed[I]
           /\ Len(Data') = Len(Data)
           /\ \A k \in 1..Len(Data) :
                 IF k = UnitOf(I)
                 THEN BitAnd(Data'[k], BitNot(Mask[I]))
                        = BitAnd(Data[k], BitNot(Mask[I]))
                 ELSE Data'[k] = Data[k]
           /\ \A G \in 1..NFields :
                 (G # I /\ ProxyValid(G))
                    => ReadField(Data', G) = ReadField(Data, G)]_vars

\* A field has been changed while a field of its unit and a field of another
\* unit hold nonzero values.
C5_Witness ==
    /\ last.I \in 1..NFields
    /\ FieldBits(Data, last.I) # FieldBits(ConstructedData, last.I)
    /\ \E G, H \in 1..NFields :
          /\ G # last.I /\ UnitOf(G) = UnitOf(last.I)
          /\ ProxyValid(G) /\ ReadField(Data, G) # 0
          /\ UnitOf(H) # UnitOf(last.I)
          /\ ProxyValid(H) /\ ReadField(Data, H) # 0

(* C6.  Default materialization: right after construction every field of   *)
(* nonzero width, mutable or fixed, reads the default value its descriptor *)
(* carries, whatever that value is.                                        *)
C6_DefaultMaterialization ==
    last.I = 0
      => \A I \in 1..NFields :
            (Width[I] > 0 /\ ProxyValid(I))
               => ReadField(Data, I) = Fields[I].DefaultValue

(* C7.  Fixed enforcement: no mutating operation goes through the accessor *)
(* of a fixed field nor through an accessor of a const storage, so after   *)
(* any sequence of accepted operations every fixed field reads the value   *)
(* it had right after construction.                                        *)
C7_FixedEnforcement ==
    /\ last.I # 0 => (~FieldFixed[last.I] /\ ~IsConst)
    /\ \A I \in 1..NFields :
          (FieldFixed[I] /\ Width[I] > 0)
             => /\ FieldBits(Data, I) = FieldBits(ConstructedData, I)
                /\ ProxyValid(I)
                      => ReadField(Data, I) = ReadField(ConstructedData, I)

\* The fields around a fixed field with a nonzero value have been written.
C7_Witness ==
    /\ last.I # 0
    /\ Data # ConstructedData
    /\ \E I \in 1..NFields :
          /\ FieldFixed[I] /\ ProxyValid(I) /\ ReadField(Data, I) # 0
          /\ UnitOf(I) = UnitOf(last.I)
          /\ Data[UnitOf(I)] # ConstructedData[UnitOf(I)]

(* C8.  Signed read: for a signed base type of 8, 16 or 32 bits a read of  *)
(* a field of width W > 0, at any shift, returns the W-bit two's-          *)
(* complement value of the field's bits; for an unsigned or enum-backed    *)
(* type it returns (unit & mask) >> shift.                                 *)
C8_SignedRead ==
    \A I \in 1..NFields :
        (Width[I] > 0 /\ ProxyValid(I))
           => ReadField(Data, I) =
                IF IsUnsigned
                THEN ShrInt(BitAnd(Data[UnitOf(I)], Mask[I]), ShiftOf(I))
                ELSE TwosComplement(FieldBits(Data, I), Width[I])

(* C9.  Arithmetic compound updates: after F op= r, op one of + - * / %    *)
(* (r nonzero for / and %), a read of F returns v op r reduced to W bits,  *)
(* sign-extended from bit W-1 for a signed type, v being the value read    *)
(* from F before.                                                          *)
C9_ArithmeticUpdates ==
    [][\A Query \in Tags, Rhs \in RhsValues :
          LET I == index(Query)
              v == Value(I)
          IN  /\ AddAssign(Query, Rhs)
                    => ReadField(Data', I) = Reduced(v + Rhs, I)
              /\ SubAssign(Query, Rhs)
                    => ReadField(Data', I) = Reduced(v - Rhs, I)
              /\ MulAssign(Query, Rhs)
                    => ReadField(Data', I) = Reduced(v * Rhs, I)
              /\ (Rhs # 0 /\ DivAssign(Query, Rhs))
                    => ReadField(Data', I) = Reduced(DivInt(v, Rhs), I)
              /\ (Rhs # 0 /\ ModAssign(Query, Rhs))
                    => ReadField(Data', I) = Reduced(ModInt(v, Rhs), I)]_vars

(* C10.  Bitwise compound updates: after F op= r, op one of & | ^, with    *)
(* any r (negative, or with bits at or above bit W), a read of F returns   *)
(* v op r reduced to W bits, sign-extended for a signed type, v being the  *)
(* value read from F before.                                               *)
C10_BitwiseUpdates ==
    [][\A Query \in Tags, Rhs \in RhsValues :
          LET I == index(Query)
              v == Value(I)
          IN  /\ AndAssign(Query, Rhs)
                    => ReadField(Data', I) = Reduced(BitAnd(v, Rhs), I)
              /\ OrAssign(Query, Rhs)
                    => ReadField(Data', I) = Reduced(BitOr(v, Rhs), I)
              /\ XorAssign(Query, Rhs)
                    => ReadField(Data', I) = Reduced(BitXor(v, Rhs), I)]_vars

(* C11.  Shift compound updates: for a count n with 0 <= n < W, after      *)
(* F <<= n the field's W-bit pattern is the old pattern shifted left by n  *)
(* modulo 2^W; after F >>= n it is the old pattern shifted right logically *)
(* for an unsigned or enum-backed type, and the W-bit truncation of the    *)
(* sign-extended old value shifted right arithmetically for a signed type. *)
C11_ShiftUpdates ==
    [][\A Query \in Tags, n \in RhsValues :
          LET I == index(Query)
              W == Width[I]
              p == FieldBits(Data, I)
          IN  /\ (ShlAssign(Query, n) /\ n \in 0..(W - 1))
                    => FieldBits(Data', I) = (p * 2 ^ n) % (2 ^ W)
              /\ (ShrAssign(Query, n) /\ n \in 0..(W - 1))
                    => FieldBits(Data', I) =
                         IF IsUnsigned THEN p \div (2 ^ n)
                         ELSE (TwosComplement(p, W) \div (2 ^ n)) % (2 ^ W)]_vars

(* C12.  Duplicate tags: a descriptor list in which two descriptors carry  *)
(* the same tag, two paddings included, is rejected before any storage is  *)
(* created, so in no constructed storage does get(tag) have several        *)
(* candidates.                                                             *)
C12_DuplicateTagsRejected ==
    \A I, J \in 1..NFields : I # J => Tag[I] # Tag[J]

C14_ZeroWidthAccess ==
    /\ \A I \in 1..NFields : Width[I] = 0 => ~ProxyValid(I)
    /\ \A Query \in Tags \cup {PaddingTag} :
          CanGet(Query) => Width[index(Query)] > 0
    /\ last.I # 0 => Width[last.I] > 0

\* A storage whose padding tag resolves to a zero-width descriptor has been
\* operated on.
C14_Witness ==
    /\ index(PaddingTag) <= NFields
    /\ Width[index(PaddingTag)] = 0
    /\ ~CanGet(PaddingTag)
    /\ last.I # 0

(* C15.  Layout ordering and non-overlap: the begin bits are non-         *)
(* decreasing in descriptor order, the bit ranges [begin, begin + width)   *)
(* of two descriptors of nonzero width are disjoint, and so are their      *)
(* masks when they share a unit.                                           *)
C15_OrderingNonOverlap ==
    /\ \A I \in 1..NFields : FieldBegin[I] <= FieldBegin[I + 1]
    /\ \A I, J \in 1..NFields :
          (I < J /\ Width[I] > 0 /\ Width[J] > 0)
             => /\ \/ FieldBegin[I] + Width[I] <= FieldBegin[J]
                   \/ FieldBegin[J] + Width[J] <= FieldBegin[I]
                /\ UnitOf(I) = UnitOf(J) => BitAnd(Mask[I], Mask[J]) = 0

\* Two fields share a unit and a later one was moved to the next unit.
C15_Witness ==
    \E I, J, K \in 1..NFields :
        /\ I < J /\ J < K
        /\ Width[I] > 0 /\ Width[J] > 0 /\ Width[K] > 0
        /\ UnitOf(I) = UnitOf(J) /\ UnitOf(K) > UnitOf(J)
        /\ FieldBegin[K] > FieldBegin[J] + Width[J]
        /\ last.I = K

(* C16.  Single-unit containment: in every layout accepted under the      *)
(* default configuration every field of width > 0 lies within one unit:    *)
(* begin / U = (begin + width - 1) / U.                                    *)
C16_SingleUnitContainment ==
    ~DisallowOversized
       => \A I \in 1..NFields :
             Width[I] > 0
                => FieldBegin[I] \div FieldTypeBits
                     = (FieldBegin[I] + Width[I] - 1) \div FieldTypeBits

(* C16, amended.  Every field of width 1..U lies within one unit, in every *)
(* accepted layout; under the default configuration a field wider than U   *)
(* is accepted and runs past the unit it begins in.                        *)
C16_ContainmentUpToUnit ==
    \A I \in 1..NFields :
        /\ Width[I] \in 1..FieldTypeBits
              => FieldBegin[I] \div FieldTypeBits
                   = (FieldBegin[I] + Width[I] - 1) \div FieldTypeBits
        /\ Width[I] > FieldTypeBits
              => /\ ~DisallowOversized
                 /\ FieldBegin[I] \div FieldTypeBits
                       # (FieldBegin[I] + Width[I] - 1) \div FieldTypeBits

\* A field that would straddle was moved; an oversized one sits in the list.
C16_Witness ==
    /\ \E I \in 1..NFields :
          /\ Width[I] \in 1..FieldTypeBits
          /\ FieldBegin[I] > CursorAfter(I - 1)
          /\ last.I = I
    /\ \E J \in 1..NFields : Width[J] > FieldTypeBits

C20_UnitIndexBounds ==
    \A I \in 1..NFields : FieldBegin[I] \div FieldTypeBits < dataSize

(* C19.  Increment and decrement: ++F leaves the storage F += 1 leaves    *)
(* and --F the storage F -= 1 leaves, wrapping modulo 2^W: the largest     *)
(* field value plus 1 is the smallest and the smallest minus 1 the         *)
(* largest; F++ and F-- leave the same storage as the prefix forms and     *)
(* return the value read from F before the update.                         *)
C19_IncDec ==
    [][\A Query \in {Tag[last'.I]} :
          LET I == index(Query)
              W == Width[I]
              p == FieldBits(Data, I)
              Rest(D) == [k \in 1..Len(D) |->
                            IF k = UnitOf(I)
                            THEN BitAnd(D[k], BitNot(Mask[I])) ELSE D[k]]
              Stored(q) == /\ FieldBits(Data', I) = q % (2 ^ W)
                           /\ Rest(Data') = Rest(Data)
              Wraps(from, to) == ReadField(Data, I) = from
                                    => ReadField(Data', I) = to
              Up   == Stored(p + 1) /\ Wraps(MaxValue(I), MinValue(I))
              Down == Stored(p - 1) /\ Wraps(MinValue(I), MaxValue(I))
          IN  IF last'.rv = NoValue
              THEN /\ PreInc(Query) => (AddAssign(Query, 1) /\ Up)
                   /\ PreDec(Query) => (SubAssign(Query, 1) /\ Down)
              ELSE /\ last'.rv = <<ReadField(Data, I)>>
                   /\ PostInc(Query) => Up
                   /\ PostDec(Query) => Down
                   /\ PostInc(Query) \/ PostDec(Query)]_vars

(* C18.  Mask shape: for every unit width U of 8, 16, 32 and 64 bits and  *)
(* every descriptor, the mask has exactly the min(width, U) bits from bit  *)
(* begin mod U of its unit set and no other; a zero-width descriptor has   *)
(* mask 0.                                                                 *)
C18_MaskShape ==
    MaskBits # <<>>
       => \A I \in 1..NFields :
             LET S == FieldBegin[I] % FieldTypeBits
             IN  MaskBits[I] =
                   {k \in 0..(FieldTypeBits - 1) :
                       S <= k /\ k < S + Min(Width[I], FieldTypeBits)}

\* The bits of the storage, numbered through the units, that a named field
\* holds: those of the descriptors that are not a Padding.
OwnedBits ==
    UNION { FieldBegin[I]..(FieldBegin[I] + Width[I] - 1) :
                I \in {J \in 1..NFields : Tag[J] # PaddingTag} }

\* C21: every bit of the storage that no named field holds (the bits of a
\* padding, the bits skipped for alignment or by a zero-width marker, the
\* trailing bits of the last unit) is 0 after construction and after every
\* accessor operation.
C21_UnownedBitsZero ==
    \A k \in DOMAIN DataBits :
        \A b \in DataBits[k] : (k - 1) * FieldTypeBits + b \in OwnedBits

\* C22: get yields an accessor for every descriptor of width 1 or more, on a
\* signed base type too and also when the field's mask covers the most
\* significant bit of the unit; the rejection "cannot access member of size
\* zero" fires exactly for the descriptors of width 0.
C22_AccessorAvailability ==
    \A I \in 1..NFields : ProxyValid(I) <=> Width[I] >= 1

=============================================================================
